---- MODULE Spec2Model ----
(***************************************************************************)
(* A model of lib/css-responder.js of connect-fonts: the module state      *)
(* (config, maxAge, compress, cssCache, cssTmpPath), setup, get_css with   *)
(* its three asynchronous steps (generation, temporary directory, file     *)
(* write), and font_css_responder with setCacheControlHeaders.             *)
(*                                                                         *)
(* Strings are sequences of one-character strings, so that concatenation,  *)
(* split, join, the \W replacement and the URL regular expression are      *)
(* computed character by character.                                        *)
(***************************************************************************)
EXTENDS Integers, Sequences, FiniteSets, Bags, TLC

VARIABLES
    config,      \* the options object of the last setup (set = FALSE: none yet)
    maxAge,      \* module variable maxAge, in milliseconds
    compress,    \* module variable compress
    cssCache,    \* module variable cssCache: cache key -> cssObj
    cssTmpPath,  \* module variable cssTmpPath: 0 is undefined, else a directory
    dirs,        \* number of temporary directories tmp.dir has created
    fs,          \* the files written so far: path -> content
    calls,       \* the bag of the get_css calls and requests in flight
    last,        \* the last completion: what a caller's callback or the
                 \* responder's outcome was
    hist,        \* observer (when on): what has happened since the last setup
    input,       \* the input drawn at the start, for the specifications that
                 \* follow one input (a request, a pair of tuples)
    output       \* what a pure function gave for the input

vars == <<config, maxAge, compress, cssCache, cssTmpPath, dirs, fs, calls,
          last, hist, input, output>>

----------------------------------------------------------------------------
(* Bounds of the model.                                                     *)

\* get_css calls that may be in flight at the same time (specification Spec)
MaxCalls == 2
\* requests that may be in flight at the same time (specification SpecResp)
MaxReqs == 1
\* path segments put in front of /fonts.css when request URLs are enumerated
MaxSegs == 3
\* length of the user-agent and locale strings of the key derivation check
MaxLen == 2

----------------------------------------------------------------------------
(* Strings.                                                                 *)

\* \w of a JavaScript regular expression: [A-Za-z0-9_]
WordChars ==
    {"a","b","c","d","e","f","g","h","i","j","k","l","m","n","o","p","q","r",
     "s","t","u","v","w","x","y","z",
     "A","B","C","D","E","F","G","H","I","J","K","L","M","N","O","P","Q","R",
     "S","T","U","V","W","X","Y","Z",
     "0","1","2","3","4","5","6","7","8","9","_"}

\* a JavaScript string is falsy exactly when it is empty; an undefined value
\* (a missing header, a missing option) is modelled by the empty string where
\* the code only tests truthiness
Falsy(s) == s = <<>>

RECURSIVE Join(_)
\* Array.prototype.toString of a list of strings: the elements joined by ","
Join(list) ==
    IF list = <<>> THEN <<>>
    ELSE IF Len(list) = 1 THEN list[1]
    ELSE list[1] \o <<",">> \o Join(Tail(list))

RECURSIVE Split(_)
\* String.prototype.split(','): the pieces between the commas, "" gives [""]
Split(s) ==
    IF \A i \in 1..Len(s) : s[i] # ","
    THEN <<s>>
    ELSE LET i == CHOOSE j \in 1..Len(s) :
                      s[j] = "," /\ \A k \in 1..(j-1) : s[k] # ","
         IN  <<SubSeq(s, 1, i-1)>> \o Split(SubSeq(s, i+1, Len(s)))

\* cacheKey.replace(/\W/g, '-')
ReplaceNonWord(s) ==
    [i \in 1..Len(s) |-> IF s[i] \in WordChars THEN s[i] ELSE "-"]

DotCss == <<".", "c", "s", "s">>
FontsCss == <<"/", "f", "o", "n", "t", "s", ".", "c", "s", "s">>

\* getCacheKey(ua, locale, fonts): ua + '-' + locale + '-' + fonts
getCacheKey(ua, locale, fonts) ==
    ua \o <<"-">> \o locale \o <<"-">> \o Join(fonts)

\* path.join(cssTmpPath, cacheKey.replace(/\W/g, '-') + ".css"): the file
\* name holds no "/" (it is a non-word character), so the path is the pair
cssPathOf(dir, cacheKey) ==
    [dir |-> dir, name |-> ReplaceNonWord(cacheKey) \o DotCss]

----------------------------------------------------------------------------
(* The URL pattern /(?:\/([^\/]+))?\/([^\/]+)\/fonts\.css$/ of                *)
(* font_css_responder, as RegExp.prototype.exec finds it: the leftmost      *)
(* start, the optional locale group tried first.                            *)

NoSlash(s) == \A i \in 1..Len(s) : s[i] # "/"

EndsWithFontsCss(url) ==
    /\ Len(url) >= Len(FontsCss)
    /\ SubSeq(url, Len(url) - Len(FontsCss) + 1, Len(url)) = FontsCss

\* the part of the url in front of the final /fonts.css
UrlBody(url) == SubSeq(url, 1, Len(url) - Len(FontsCss))

\* \/([^\/]+)\/([^\/]+) from position i to the end of body: the slash j that
\* separates the two groups
WithLocaleAt(body, i) ==
    {j \in (i+2)..(Len(body)-1) :
        /\ body[i] = "/" /\ body[j] = "/"
        /\ NoSlash(SubSeq(body, i+1, j-1))
        /\ NoSlash(SubSeq(body, j+1, Len(body)))}

\* \/([^\/]+) from position i to the end of body
WithoutLocaleAt(body, i) ==
    /\ i < Len(body)
    /\ body[i] = "/"
    /\ NoSlash(SubSeq(body, i+1, Len(body)))

MatchStarts(url) ==
    IF ~EndsWithFontsCss(url) THEN {}
    ELSE {i \in 1..Len(UrlBody(url)) :
             \/ WithLocaleAt(UrlBody(url), i) # {}
             \/ WithoutLocaleAt(UrlBody(url), i)}

UrlMatches(url) == MatchStarts(url) # {}

\* a pattern without the locale group: the segment in front of /fonts.css is
\* all that is taken
MutUrlMatch(url) ==
    LET body == UrlBody(url)
        i    == CHOOSE k \in 1..Len(body) :
                    body[k] = "/" /\ NoSlash(SubSeq(body, k+1, Len(body)))
    IN  [locale |-> <<>>, fonts |-> SubSeq(body, i+1, Len(body))]

\* match[1] and match[2] of the leftmost match; match[1] is undefined (here
\* the empty string, as falsy) when the locale group took no part
UrlMatch(url) ==
    LET body == UrlBody(url)
        i    == CHOOSE k \in MatchStarts(url) : \A m \in MatchStarts(url) : k <= m
    IN  IF WithLocaleAt(body, i) # {}
        THEN LET j == CHOOSE k \in WithLocaleAt(body, i) : TRUE
             IN  [locale |-> SubSeq(body, i+1, j-1),
                  fonts  |-> SubSeq(body, j+1, Len(body))]
        ELSE [locale |-> <<>>, fonts |-> SubSeq(body, i+1, Len(body))]

Default == <<"d", "e", "f", "a", "u", "l", "t">>

----------------------------------------------------------------------------
(* Values.                                                                  *)

Str(c) == <<c>>

\* the font tables a setup call may configure, by number; the CSS the
\* generator produces depends on the table it was set up with
FontTable(id) ==
    IF id = 1 THEN {Str("f"), Str("g"), <<"f", "-", "g">>}
    ELSE IF id = 2 THEN {Str("f")}
    ELSE {}

NoCss == [whole |-> FALSE, ua |-> <<>>, locale |-> <<>>, fonts |-> <<>>, cfg |-> 0]
NoPath == [dir |-> -1, name |-> <<>>]
NoEntry == [css |-> NoCss, cssPath |-> NoPath]
NoReq == [method |-> "", url |-> <<>>, uaHdr |-> <<>>]

\* a response header: unset, or set to a text
NoHeader == [set |-> FALSE, text |-> "", whole |-> 0, frac |-> 0]
TextHeader(t) == [set |-> TRUE, text |-> t, whole |-> 0, frac |-> 0]
NoHeaders == [date |-> NoHeader, cc |-> NoHeader]

\* what res.getHeader gives is falsy when the header is unset or set to ""
HeaderFalsy(h) == ~h.set \/ h.text = ""

\* 'public, max-age=' + (maxAge / 1000): the quotient is a JavaScript number,
\* printed with its fraction (frac, in thousandths) when there is one
MaxAgeHeader(ms) ==
    [set |-> TRUE, text |-> "public, max-age=", whole |-> ms \div 1000,
     frac |-> ms % 1000]

\* setCacheControlHeaders(res), on the headers of res
setCacheControlHeaders(h, ms) ==
    IF ms # 0
    THEN [date |-> IF HeaderFalsy(h.date) THEN TextHeader("now") ELSE h.date,
          cc   |-> IF HeaderFalsy(h.cc) THEN MaxAgeHeader(ms) ELSE h.cc]
    ELSE h

NewCall ==
    [pc |-> "new", kind |-> "none", ua |-> <<>>, locale |-> <<>>,
     fonts |-> <<>>, key |-> <<>>, cfg |-> 0, css |-> NoCss, path |-> NoPath,
     comp |-> FALSE, nextCalls |-> 0, inserted |-> FALSE, old |-> FALSE]

NoEvent ==
    [what |-> "none", kind |-> "none", req |-> NoReq, called |-> FALSE,
     ua |-> <<>>, locale |-> <<>>, fonts |-> <<>>, key |-> <<>>,
     hit |-> FALSE, err |-> "none", cbErr |-> "none", entry |-> NoEntry,
     nextCalls |-> 0, thrown |-> FALSE, inserted |-> FALSE, old |-> FALSE,
     hdr0 |-> NoHeaders, hdr1 |-> NoHeaders, body |-> NoCss, comp |-> FALSE,
     maxAge |-> 0]

\* an event about the call c in a slot
EventOf(what, c) ==
    [NoEvent EXCEPT !.what = what, !.kind = c.kind, !.called = TRUE,
                    !.ua = c.ua, !.locale = c.locale, !.fonts = c.fonts,
                    !.key = c.key, !.nextCalls = c.nextCalls,
                    !.inserted = c.inserted, !.old = c.old]

NoHist == [on |-> FALSE, ok |-> <<>>, stale |-> {}]

InFlight == BagToSet(calls)
\* one call of the bag moves on, leaves, or a new one enters
Moved(c, d) == (calls (-) SetToBag({c})) (+) SetToBag({d})
Left(c) == calls (-) SetToBag({c})
Entered(d) == calls (+) SetToBag({d})

\* an event that says no more than that a step was taken
Quiet == [NoEvent EXCEPT !.what = "step"]

----------------------------------------------------------------------------
(* setup                                                                    *)

\* the observer's view of the calls in flight when setup is called: each is
\* marked as begun before it (old)
Outdated ==
    LET new(c) == [c EXCEPT !.old = TRUE]
        from(d) == {c \in InFlight : new(c) = d}
        count(d) == LET RECURSIVE Sum(_)
                        Sum(S) == IF S = {} THEN 0
                                  ELSE LET x == CHOOSE y \in S : TRUE
                                       IN  calls[x] + Sum(S \ {x})
                    IN  Sum(from(d))
    IN  [d \in {new(c) : c \in InFlight} |-> count(d)]

\* exports.setup(options), for options that hold fonts and
\* locale_to_url_keys (util.checkRequired throws otherwise and nothing is
\* assigned). o.fonts names the font table, o.maxage = 0 and o.ua = "" stand
\* for options that are left out.
Setup(o) ==
    /\ config' = [set |-> TRUE, fonts |-> o.fonts, ua |-> o.ua]
    /\ maxAge' = IF o.maxage # 0 THEN o.maxage ELSE 0
    /\ compress' = o.compress
    /\ cssCache' = <<>>
    /\ hist' = IF hist.on
               THEN [hist EXCEPT !.ok = <<>>, !.stale = @ \cup DOMAIN cssCache]
               ELSE hist
    /\ last' = [NoEvent EXCEPT !.what = "setup"]
    /\ calls' = IF hist.on THEN Outdated ELSE calls
    /\ UNCHANGED <<cssTmpPath, dirs, fs, input, output>>

----------------------------------------------------------------------------
(* get_css                                                                  *)

\* what the responder's callback does with err (lines 173-190): next() for
\* an InvalidFontError, throw for another error, else the response is piped
MutOutcomeThrowsAll(err) == IF err # "none" THEN "thrown" ELSE "piped"
MutOutcomeSwallowsAll(err) == IF err # "none" THEN "next" ELSE "piped"
Outcome(err) ==
    IF err = "InvalidFontError" THEN "next"
    ELSE IF err # "none" THEN "thrown"
    ELSE "piped"

\* the callback `done` of a get_css call c, called with (err, cssObj); rest
\* is the bag of the other calls in flight. For a call of the API the
\* caller's callback is the end of it. For a call of font_css_responder it
\* is the function of lines 170-191: next() on an InvalidFontError, throw on
\* another error, else the header listener is registered and the file is
\* piped to the response.
Done(rest, c, req, err, cssObj, hit) ==
    LET e == [EventOf("callback", c) EXCEPT !.err = err, !.cbErr = err,
                                           !.entry = cssObj, !.hit = hit,
                                           !.req = req]
    IN  IF c.kind = "api"
        THEN /\ calls' = rest
             /\ last' = e
        ELSE IF Outcome(err) = "next"
        THEN /\ calls' = rest
             /\ last' = [e EXCEPT !.what = "next", !.nextCalls = c.nextCalls + 1]
        ELSE IF Outcome(err) = "thrown"
        THEN /\ calls' = rest
             /\ last' = [e EXCEPT !.what = "thrown", !.thrown = TRUE]
        ELSE /\ calls' = rest (+) SetToBag({[c EXCEPT !.pc = "piping",
                                                      !.css = cssObj.css,
                                                      !.path = cssObj.cssPath,
                                                      !.comp = compress]})
             /\ last' = [e EXCEPT !.what = "piped", !.comp = compress]

\* the observer's view of a get_css call that starts: the key has been asked
\* for since the last setup
Asked(key) == IF hist.on THEN [hist EXCEPT !.stale = @ \ {key}] ELSE hist

\* line 170: the responder returns what get_css returns, so that the next()
\* of line 196 is not reached once get_css has been called
MutReturnsGetCss == FALSE
ReturnsGetCss == TRUE

\* exports.get_css(ua, locale, fonts, done) up to its first asynchronous
\* call: a cache hit calls done at once, a miss invokes generate_css. A call
\* of the responder (kind "http") that did not return there would go on to
\* the next() of line 196.
GetCss(kind, req, ua, locale, fonts) ==
    LET key == getCacheKey(ua, locale, fonts)
        c   == [NewCall EXCEPT !.kind = kind, !.ua = ua, !.locale = locale,
                               !.fonts = fonts, !.key = key,
                               !.nextCalls = IF kind = "http" /\ ~ReturnsGetCss
                                             THEN 1 ELSE 0]
    IN  /\ hist' = Asked(key)
        /\ IF key \in DOMAIN cssCache
           THEN Done(calls, c, req, "none", cssCache[key], TRUE)
           ELSE /\ calls' = Entered([c EXCEPT !.pc = "generating",
                                              !.cfg = config.fonts])
                /\ last' = [EventOf("miss", c) EXCEPT !.req = req]
        /\ UNCHANGED <<cssCache, cssTmpPath, dirs, fs>>

\* a call of get_css through the module's API; setup must have been called
ApiCall(t) ==
    /\ config.set
    /\ GetCss("api", NoReq, t.ua, t.locale, t.fonts)
    /\ UNCHANGED <<config, maxAge, compress, input, output>>

\* fs.writeFile is invoked on the path built from the directory and the key
\* (lines 131-132)
Writing(c, css, dir) ==
    [c EXCEPT !.pc = "writing", !.css = css, !.path = cssPathOf(dir, c.key)]

\* the callback of generate_css (lines 98-104 and 126-131). The generator
\* reports an InvalidFontError for a font its table does not hold; it may
\* fail otherwise (ok = FALSE); else it gives the CSS of the tuple, and
\* prepareTmpPath calls back at once when cssTmpPath is set and calls tmp.dir
\* when it is not.
GenDone(c, ok) ==
    LET css == [whole |-> TRUE, ua |-> c.ua, locale |-> c.locale,
                fonts |-> c.fonts, cfg |-> c.cfg]
    IN  /\ c.pc = "generating"
        /\ IF \E i \in 1..Len(c.fonts) : c.fonts[i] \notin FontTable(c.cfg)
           THEN /\ ok
                /\ Done(Left(c), c, NoReq, "InvalidFontError", NoEntry, FALSE)
           ELSE IF ~ok
           THEN Done(Left(c), c, NoReq, "GenerationError", NoEntry, FALSE)
           ELSE IF cssTmpPath # 0
           THEN /\ calls' = Moved(c, Writing(c, css, cssTmpPath))
                /\ last' = Quiet
           ELSE /\ calls' = Moved(c, [c EXCEPT !.pc = "mkdir", !.css = css])
                /\ last' = Quiet
        /\ UNCHANGED <<config, maxAge, compress, cssCache, cssTmpPath, dirs,
                       fs, hist, input, output>>

\* the callback of tmp.dir (lines 42-47), success: a fresh directory
MkdirDone(c) ==
    /\ c.pc = "mkdir"
    /\ dirs' = dirs + 1
    /\ cssTmpPath' = dirs + 1
    /\ calls' = Moved(c, Writing(c, c.css, dirs + 1))
    /\ last' = Quiet
    /\ UNCHANGED <<config, maxAge, compress, cssCache, fs, hist, input, output>>

\* the callback of tmp.dir, failure: done(err) leaves the callback of line
\* 130 with cssTmpPath undefined, and the error is not looked at. path.join
\* throws a TypeError on the undefined argument: the callback of get_css is
\* never called.
MkdirFail(c) ==
    /\ c.pc = "mkdir"
    /\ calls' = Left(c)
    /\ last' = [EventOf("crash", c) EXCEPT !.err = "IOError", !.thrown = TRUE]
    /\ UNCHANGED <<config, maxAge, compress, cssCache, cssTmpPath, dirs,
                   fs, hist, input, output>>

\* the entry a successful write stores under the key (lines 136-137)
Cached(c) == (c.key :> [css |-> c.css, cssPath |-> c.path]) @@ cssCache

\* the cache after a failed write: `if (err) return done(err)` comes before
\* the assignment, so nothing is stored
MutCachedOnError(c) == Cached(c)
CachedOnError(c) == cssCache

\* fs.writeFile puts the text in the file; its callback comes later
WriteFile(c) ==
    /\ c.pc = "writing"
    /\ fs' = (c.path :> c.css) @@ fs
    /\ calls' = Moved(c, [c EXCEPT !.pc = "written"])
    /\ last' = Quiet
    /\ UNCHANGED <<config, maxAge, compress, cssCache, cssTmpPath, dirs,
                   hist, input, output>>

\* fs.writeFile fails (line 133): the file is untouched, or truncated with
\* part of the text in it
WriteFail(c, partial) ==
    /\ c.pc = "writing"
    /\ fs' = IF partial THEN (c.path :> [c.css EXCEPT !.whole = FALSE]) @@ fs
                        ELSE fs
    /\ cssCache' = CachedOnError(c)
    /\ Done(Left(c), [c EXCEPT !.inserted = (cssCache' # cssCache)], NoReq,
            "IOError", NoEntry, FALSE)
    /\ UNCHANGED <<config, maxAge, compress, cssTmpPath, dirs, hist,
                   input, output>>

\* the observer's view of a get_css call that succeeds: the path given to
\* the first call of its tuple that succeeded since the last setup
Succeeded(c) ==
    LET t == <<c.ua, c.locale, c.fonts>>
    IN  IF ~hist.on \/ t \in DOMAIN hist.ok THEN hist
        ELSE [hist EXCEPT !.ok = (t :> c.path) @@ @]

\* the callback of fs.writeFile, success (lines 135-138)
WriteDone(c) ==
    LET cssObj == [css |-> c.css, cssPath |-> c.path]
    IN  /\ c.pc = "written"
        /\ cssCache' = Cached(c)
        /\ hist' = Succeeded(c)
        /\ Done(Left(c), [c EXCEPT !.inserted = TRUE], NoReq, "none", cssObj, FALSE)
        /\ UNCHANGED <<config, maxAge, compress, cssTmpPath, dirs, fs, input, output>>

----------------------------------------------------------------------------
(* font_css_responder                                                       *)

\* next() is called and the responder returns (line 196)
PassOn(r) ==
    /\ last' = [NoEvent EXCEPT !.what = "next", !.kind = "http", !.req = r,
                               !.nextCalls = 1]
    /\ UNCHANGED <<cssCache, cssTmpPath, dirs, fs, calls, hist>>

\* the condition of lines 153-156: a GET whose URL the pattern matches
MutIsFontRequest(r) == UrlMatches(r.url)
IsFontRequest(r) == r.method = "GET" /\ UrlMatches(r.url)

\* line 158: config.ua || req.headers['user-agent']
MutResolveUa(cfgUa, uaHdr) == IF ~Falsy(uaHdr) THEN uaHdr ELSE cfgUa
ResolveUa(cfgUa, uaHdr) == IF ~Falsy(cfgUa) THEN cfgUa ELSE uaHdr

\* line 169: ua && locale && fonts; fonts is an array, which is truthy
MutHasAll(ua, locale, fonts) == ~Falsy(locale)
HasAll(ua, locale, fonts) == ~Falsy(ua) /\ ~Falsy(locale)

\* exports.font_css_responder(req, res, next) up to its return (lines
\* 151-197). A request that matches reads config.ua, so setup must have been
\* called.
Request(r) ==
    /\ IF IsFontRequest(r)
       THEN /\ config.set
            /\ LET match  == UrlMatch(r.url)
                   ua     == ResolveUa(config.ua, r.uaHdr)
                   locale == IF Falsy(match.locale) THEN Default ELSE match.locale
                   fonts  == Split(match.fonts)
               IN  IF HasAll(ua, locale, fonts)
                   THEN GetCss("http", r, ua, locale, fonts)
                   ELSE PassOn(r)
       ELSE PassOn(r)
    /\ UNCHANGED <<config, maxAge, compress, input, output>>

\* the response is sent: the 'header' event runs setCacheControlHeaders on
\* the headers set so far (pre), and the file of the entry is the body
Stream(c, pre) ==
    /\ c.pc = "piping"
    /\ calls' = Left(c)
    /\ last' = [EventOf("streamed", c) EXCEPT
                   !.hdr0 = pre,
                   !.hdr1 = setCacheControlHeaders(pre, maxAge),
                   !.maxAge = maxAge,
                   !.comp = c.comp,
                   !.entry = [css |-> c.css, cssPath |-> c.path],
                   !.body = IF c.path \in DOMAIN fs THEN fs[c.path] ELSE NoCss]
    /\ UNCHANGED <<config, maxAge, compress, cssCache, cssTmpPath, dirs,
                   fs, hist, input, output>>

----------------------------------------------------------------------------
(* Inputs.                                                                  *)

\* the options of a setup call
Options(tables, ages, flags, uas) ==
    [fonts : tables, maxage : ages, compress : flags, ua : uas]

\* the (ua, locale, fonts) tuples of the calls of the API: two tuples that
\* differ and have the same key
Tuples ==
    {[ua |-> <<"a", "-", "b">>, locale |-> Str("c"), fonts |-> <<Str("f")>>],
     [ua |-> Str("a"), locale |-> <<"b", "-", "c">>, fonts |-> <<Str("f")>>]}

\* headers a response may hold before the 'header' event
PresetHeader == {NoHeader, TextHeader(""), TextHeader("preset")}
PresetHeaders == [date : PresetHeader, cc : PresetHeader]

RECURSIVE Paths(_)
\* the URL paths of up to n segments, each "/" and a segment
Segments == {Str("e"), <<"f", ",", "g">>}
Paths(n) ==
    IF n = 0 THEN {<<>>}
    ELSE Paths(n-1) \cup
         {<<"/">> \o seg \o rest : seg \in Segments, rest \in Paths(n-1)}

Requests ==
    [method : {"GET", "POST"},
     url    : {path \o tail : path \in Paths(MaxSegs),
                              tail \in {FontsCss, FontsCss \o Str("?")}},
     uaHdr  : {<<>>, Str("a")}]

----------------------------------------------------------------------------
(* Specifications.                                                          *)

InitState ==
    /\ config = [set |-> FALSE, fonts |-> 0, ua |-> <<>>]
    /\ maxAge = 0
    /\ compress = FALSE
    /\ cssCache = <<>>
    /\ cssTmpPath = 0
    /\ dirs = 0
    /\ fs = <<>>
    /\ calls = EmptyBag
    /\ last = NoEvent
    /\ output = <<>>

\* the steps of the calls in flight
Step ==
    \E c \in InFlight :
        \/ \E ok \in BOOLEAN : GenDone(c, ok)
        \/ MkdirDone(c)
        \/ MkdirFail(c)
        \/ WriteFile(c)
        \/ \E partial \in BOOLEAN : WriteFail(c, partial)
        \/ WriteDone(c)

\* Spec: calls of the API in any interleaving, setup at any time
Init ==
    /\ InitState
    /\ hist = [NoHist EXCEPT !.on = TRUE]
    /\ input = <<>>

Next ==
    \/ \E o \in Options({1}, {0}, {FALSE}, {<<>>}) : Setup(o)
    \/ \E t \in Tuples : BagCardinality(calls) < MaxCalls /\ ApiCall(t)
    \/ Step

Spec == Init /\ [][Next]_vars

\* SpecResp: requests like the one drawn at the start, under the
\* configuration of one setup call
InitResp ==
    /\ InitState
    /\ hist = NoHist
    /\ input \in Requests

NextResp ==
    \/ \E o \in Options({1}, {0}, BOOLEAN, {<<>>, Str("b")}) :
          ~config.set /\ Setup(o)
    \/ BagCardinality(calls) < MaxReqs /\ Request(input)
    \/ Step
    \/ \E c \in InFlight : Stream(c, NoHeaders)

SpecResp == InitResp /\ [][NextResp]_vars

\* SpecHdr: requests for /e/f,g/fonts.css, whose responses hold any of the
\* preset headers, with a max-age of any of MaxAges set up at any time
MaxAges == {0, 1500, 3600000}

InitHdr ==
    /\ InitState
    /\ hist = NoHist
    /\ input = [method |-> "GET",
                url |-> <<"/", "e", "/", "f", ",", "g">> \o FontsCss,
                uaHdr |-> Str("a")]

NextHdr ==
    \/ \E o \in Options({1}, MaxAges, {FALSE}, {<<>>}) : Setup(o)
    \/ BagCardinality(calls) < MaxReqs /\ Request(input)
    \/ Step
    \/ \E c \in InFlight, pre \in PresetHeaders : Stream(c, pre)

SpecHdr == InitHdr /\ [][NextHdr]_vars

\* SpecKey: the key and the file name of the two tuples drawn at the start
KeyStrings ==
    UNION {[1..n -> {"a", "-"}] : n \in 1..MaxLen}
KeyFonts ==
    {<<Str("f")>>, <<Str("f"), Str("g")>>, <<<<"f", ",", "g">>>>,
     <<<<"f", "-", "g">>>>}
KeyTuples == [ua : KeyStrings, locale : KeyStrings, fonts : KeyFonts]

Derived(t) ==
    LET key == getCacheKey(t.ua, t.locale, t.fonts)
    IN  [key |-> key, path |-> cssPathOf(1, key)]

InitKey ==
    /\ InitState
    /\ hist = NoHist
    /\ input \in KeyTuples \X KeyTuples

Derive ==
    /\ output = <<>>
    /\ output' = <<Derived(input[1]), Derived(input[2])>>
    /\ UNCHANGED <<config, maxAge, compress, cssCache, cssTmpPath, dirs, fs,
                   calls, last, hist, input>>

NextKey == Derive

SpecKey == InitKey /\ [][NextKey]_vars

\* SpecFiles: calls of the API for two tuples whose keys differ and whose
\* file names are the same, in any interleaving, under the configuration of
\* one setup call, when neither the generation nor the file system fails
FileTuples ==
    {[ua |-> Str("a"), locale |-> Str("b"), fonts |-> <<<<"f", "-", "g">>>>],
     [ua |-> Str("a"), locale |-> Str("b"), fonts |-> <<Str("f"), Str("g")>>]}

InitFiles ==
    /\ InitState
    /\ hist = NoHist
    /\ input = <<>>

NextFiles ==
    \/ \E o \in Options({1}, {0}, {FALSE}, {<<>>}) : ~config.set /\ Setup(o)
    \/ \E t \in FileTuples : BagCardinality(calls) < MaxCalls /\ ApiCall(t)
    \/ \E c \in InFlight :
          \/ GenDone(c, TRUE)
          \/ MkdirDone(c)
          \/ WriteFile(c)
          \/ WriteDone(c)

SpecFiles == InitFiles /\ [][NextFiles]_vars

----------------------------------------------------------------------------
(* Properties.                                                              *)

\* a step in which a get_css call begins: every action sets `last` to what
\* it did, the beginning of a call gives a miss or a hit
Begins(t) ==
    /\ last'.what = "miss" \/ last'.hit
    /\ <<last'.ua, last'.locale, last'.fonts>> = t

\* C1: once a get_css call for a tuple has completed successfully and setup
\* has not been called since, a later get_css call for the same tuple
\* completes at once with an entry of the same file path, and nothing is
\* generated, no directory is made and no file is written.
C1_CacheHit ==
    [][\A t \in DOMAIN hist.ok :
          Begins(t) =>
              /\ last'.what = "callback" /\ last'.hit
              /\ last'.entry.cssPath = hist.ok[t]
              /\ calls' = calls /\ fs' = fs /\ dirs' = dirs
              /\ cssTmpPath' = cssTmpPath]_vars

\* C2: the first get_css call for a key that was cached when setup was called
\* does not return a cached entry: it invokes the generation again.
C2_SetupClears ==
    [][~(last'.hit /\ last'.key \in hist.stale)]_vars

\* C3: two tuples that differ in a component have different cache keys.
C3_DistinctKeys ==
    (output # <<>> /\ input[1] # input[2]) => output[1].key # output[2].key

\* the request of the event `last`, when the event is the responder's return
Returned == last.kind = "http" /\ last.req # NoReq
UaAvailable == ~Falsy(config.ua) \/ ~Falsy(last.req.uaHdr)
\* the list that F split on commas is: its elements hold no comma and give F
\* back when joined by commas
IsSplitOf(list, F) ==
    /\ Join(list) = F
    /\ list # <<>>
    /\ \A i \in 1..Len(list) : \A k \in 1..Len(list[i]) : list[i][k] # ","

\* C4: a GET request with a user-agent for /L/F/fonts.css calls get_css with
\* locale L and the fonts of F split on commas; for /F/fonts.css it calls
\* get_css with locale "default" and the fonts of F split on commas.
C4_UrlResolves ==
    (Returned /\ last.req.method = "GET" /\ UaAvailable) =>
        \A F \in Segments :
            /\ \A L \in Segments :
                  last.req.url = <<"/">> \o L \o <<"/">> \o F \o FontsCss =>
                      /\ last.called
                      /\ last.locale = L
                      /\ IsSplitOf(last.fonts, F)
            /\ last.req.url = <<"/">> \o F \o FontsCss =>
                  /\ last.called
                  /\ last.locale = Default
                  /\ IsSplitOf(last.fonts, F)

C4_Witness ==
    /\ Returned /\ last.called /\ last.what = "miss"
    /\ last.req.url = <<"/", "e", "/", "f", ",", "g">> \o FontsCss
    /\ last.locale = Str("e")
    /\ last.fonts = <<Str("f"), Str("g")>>

\* the URL ends in a fonts segment followed by /fonts.css
EndsInFontsSegment(url) ==
    /\ EndsWithFontsCss(url)
    /\ \E i \in 1..(Len(url) - Len(FontsCss) - 1) :
          /\ url[i] = "/"
          /\ NoSlash(SubSeq(url, i+1, Len(url) - Len(FontsCss)))

\* C5: for a request that is no GET, and for a GET whose URL does not end in
\* a fonts segment followed by /fonts.css, next is called once, get_css is
\* not called and nothing is written to the response.
C5_PassThrough ==
    (Returned /\ (last.req.method # "GET" \/ ~EndsInFontsSegment(last.req.url))) =>
        /\ last.what = "next" /\ last.nextCalls = 1
        /\ ~last.called /\ ~last.thrown
        /\ last.body = NoCss /\ last.hdr1 = NoHeaders

C5_Witness ==
    /\ Returned /\ last.what = "next" /\ last.nextCalls = 1
    /\ last.req.method = "POST"
    /\ EndsInFontsSegment(last.req.url)
    /\ config.set

\* C6: when get_css reports an InvalidFontError to the responder, next is
\* called once, nothing is thrown, nothing is streamed and the key of the
\* request is not cached.
C6_InvalidFontPassesOn ==
    (last.kind = "http" /\ last.cbErr = "InvalidFontError") =>
        /\ last.what = "next" /\ last.nextCalls = 1
        /\ ~last.thrown
        /\ last.body = NoCss
        /\ ~last.inserted
        /\ last.key \notin DOMAIN cssCache

C6_Witness ==
    /\ last.kind = "http" /\ last.cbErr = "InvalidFontError"
    /\ last.what = "next"
    /\ last.fonts = <<Str("e")>>

\* C7: with a max-age above 0 and no Cache-Control header set before, the
\* response gets Cache-Control "public, max-age=N", N the whole number of
\* seconds that maxAge / 1000 is.
C7_MaxAgeSeconds ==
    (last.what = "streamed" /\ last.maxAge > 0 /\ ~last.hdr0.cc.set) =>
        /\ last.hdr1.cc.set
        /\ last.hdr1.cc.text = "public, max-age="
        /\ last.hdr1.cc.frac = 0
        /\ last.hdr1.cc.whole * 1000 = last.maxAge

\* C8: the cache-control step changes no Date or Cache-Control header that
\* the response holds already, sets neither with a max-age of 0, and only
\* adds a missing one with a max-age above 0.
C8_HeadersKept ==
    last.what = "streamed" =>
        /\ last.hdr0.date.set => last.hdr1.date = last.hdr0.date
        /\ last.hdr0.cc.set => last.hdr1.cc = last.hdr0.cc
        /\ last.maxAge = 0 => last.hdr1 = last.hdr0
        /\ (last.maxAge > 0 /\ ~last.hdr0.date.set) => last.hdr1.date.set
        /\ (last.maxAge > 0 /\ ~last.hdr0.cc.set) => last.hdr1.cc.set

\* C9: a get_css call that ends with an error of the generation or of the
\* file write gives the error to the caller's callback and leaves the cache
\* as it was, so that the key is generated again when asked for next.
C9_FailuresNotCached ==
    [][(last'.cbErr \in {"GenerationError", "IOError"}) =>
          /\ last'.what = "callback"
          /\ last'.entry = NoEntry
          /\ ~last'.inserted
          /\ cssCache' = cssCache]_vars

C9_Witness ==
    /\ last.what = "callback" /\ last.cbErr = "IOError"
    /\ ~last.inserted
    /\ last.key \notin DOMAIN cssCache
    /\ last.key \notin hist.stale

\* C10: when get_css reports to the responder an error that is no
\* InvalidFontError, the responder throws it: next is not called and nothing
\* is streamed.
C10_OtherErrorsThrown ==
    (last.kind = "http" /\ last.cbErr \in {"GenerationError", "IOError"}) =>
        /\ last.what = "thrown" /\ last.thrown
        /\ last.nextCalls = 0
        /\ last.body = NoCss

C10_Witness ==
    /\ last.kind = "http" /\ last.cbErr = "GenerationError"
    /\ last.what = "thrown" /\ last.nextCalls = 0

\* C11: on a matching GET request the user-agent given to get_css, and so
\* the one in the cache key, is the configured ua when one is set, whatever
\* the user-agent header of the request; it is the header only when no ua is
\* configured.
C11_UaOverride ==
    (Returned /\ last.called) =>
        LET ua == IF ~Falsy(config.ua) THEN config.ua ELSE last.req.uaHdr
        IN  /\ last.ua = ua
            /\ last.key = getCacheKey(ua, last.locale, last.fonts)

C11_Witness ==
    /\ Returned /\ last.called
    /\ config.ua = Str("b") /\ last.req.uaHdr = Str("a")
    /\ last.ua = Str("b")

\* C12: when tmp.dir fails during a cache miss (a call that waits for the
\* directory ends and no directory was made), the callback of get_css gets
\* the I/O error, no file is written and the cache is left as it was.
C12_TmpDirErrorReported ==
    [][\A c \in InFlight :
          (c.pc = "mkdir" /\ calls' = Left(c) /\ dirs' = dirs) =>
              /\ last'.what = "callback" /\ last'.cbErr = "IOError"
              /\ fs' = fs
              /\ cssCache' = cssCache]_vars

\* C13: at most one temporary directory is ever made, and the file of every
\* cache entry lies in it.
C13_OneTmpDir ==
    /\ dirs <= 1
    /\ \A k \in DOMAIN cssCache : cssCache[k].cssPath.dir = cssTmpPath

\* C14: when a get_css call succeeds for a key that another call, in flight
\* at the same time, has stored in the meantime (both missed), its callback
\* gets an entry with the file path of the entry stored, and the cache goes
\* on holding one entry for the key, with that path.
C14_ConcurrentMisses ==
    [][\A c \in InFlight :
          (/\ c.pc = "written" /\ calls' = Left(c)
           /\ last'.what = "callback" /\ last'.cbErr = "none"
           /\ c.key \in DOMAIN cssCache) =>
              /\ last'.entry.cssPath = cssCache[c.key].cssPath
              /\ c.key \in DOMAIN cssCache'
              /\ cssCache'[c.key].cssPath = cssCache[c.key].cssPath]_vars

\* C15: two cache keys that differ have different file names.
C15_DistinctFiles ==
    (output # <<>> /\ output[1].key # output[2].key) =>
        output[1].path # output[2].path

\* the whole URL is /{locale}/{fonts}/fonts.css or /{fonts}/fonts.css
ExactFontUrl(url) ==
    /\ EndsWithFontsCss(url)
    /\ \/ WithoutLocaleAt(UrlBody(url), 1)
       \/ WithLocaleAt(UrlBody(url), 1) # {}

\* C16: a GET request whose whole URL is neither /{locale}/{fonts}/fonts.css
\* nor /{fonts}/fonts.css is passed to next and get_css is not called.
C16_WholeUrl ==
    (Returned /\ last.req.method = "GET" /\ ~ExactFontUrl(last.req.url)) =>
        /\ last.what = "next"
        /\ ~last.called

\* C17: a GET request that matches the pattern when no user-agent is
\* available (none configured, none in the headers) calls next once, does
\* not call get_css and streams nothing.
C17_NoUserAgent ==
    (/\ Returned /\ last.req.method = "GET" /\ UrlMatches(last.req.url)
     /\ ~UaAvailable) =>
        /\ last.what = "next" /\ last.nextCalls = 1
        /\ ~last.called /\ ~last.thrown
        /\ last.body = NoCss
        /\ \A c \in InFlight : c.pc # "piping"

C17_Witness ==
    /\ Returned /\ last.req.method = "GET" /\ UrlMatches(last.req.url)
    /\ config.set /\ Falsy(config.ua) /\ Falsy(last.req.uaHdr)
    /\ last.what = "next" /\ ~last.called

\* C18: the file at the path of every cache entry holds the CSS text of the
\* entry.
C18_FileHoldsEntryCss ==
    \A k \in DOMAIN cssCache :
        /\ cssCache[k].cssPath \in DOMAIN fs
        /\ fs[cssCache[k].cssPath] = cssCache[k].css

\* C19: no entry of a get_css call that was in flight when setup was called
\* is put in the cache after that setup.
C19_NoStaleEntry ==
    [][~(last'.inserted /\ last'.old)]_vars

\* C20: a request ends in one of: next called, the file streamed, an error
\* raised. next is called at most once, and it is not called for a request
\* whose response is streamed or that is still waiting for get_css.
C20_OneOutcome ==
    /\ \A c \in InFlight : c.nextCalls = 0
    /\ last.kind = "http" =>
          /\ last.what \in {"miss", "piped", "next", "streamed", "thrown",
                            "crash"}
          /\ last.nextCalls <= 1
          /\ last.what = "next" <=> last.nextCalls = 1
          /\ last.what \in {"thrown", "crash"} <=> last.thrown
          /\ last.body # NoCss => last.what = "streamed"

C20_Witness ==
    /\ Returned /\ last.what = "piped" /\ last.hit
    /\ last.nextCalls = 0 /\ ~last.thrown

====
